---------------------------- MODULE Spec2Model ----------------------------
(***************************************************************************)
(* A model of firmware/generate.py of pico-synth: the generator of the     *)
(* note table (phase steps) and of the band-limited wavetables.            *)
(*                                                                         *)
(* Numbers.  The script computes with Python ints and floats.              *)
(*  - Frequencies, periods and phase steps are modelled as exact binary    *)
(*    rationals n * 2^e / d (records [n, e, d]); the only inexact input is *)
(*    the semitone ratio 2^(r/12), which is tabulated to eight decimals.   *)
(*  - Waveform samples (blit, square, triangle, sawtooth) are fixed-point  *)
(*    integers counting units of 1/SCALE; sin is a rational approximation  *)
(*    that is zero exactly at the multiples of pi, like math.sin is at 0.  *)
(* All products are arranged to stay within 32-bit integers.               *)
(***************************************************************************)
EXTENDS Integers, Sequences, FiniteSets

VARIABLES
    pc,             \* position of the script
    octave,         \* the outer loop variable i of "for i in range(wavetable_octaves)"
    P,              \* samples per period of the octave's reference note
    M,              \* odd number of harmonics
    mid,            \* index of the BLIT singularity
    blit,           \* the BLIT buffer
    blit_avg,
    square,
    square_avg,
    triangle,
    sawtooth,
    wavetables,     \* the 'square', 'triangle', 'sawtooth' families
    notes           \* the entries yielded by dump_notes so far

vars == <<pc, octave, P, M, mid, blit, blit_avg, square, square_avg,
          triangle, sawtooth, wavetables, notes>>

---------------------------------------------------------------------------
(* Constants of the script *)

waveform_amplitude == 2047
waveform_samples_per_cycle == 512
a4_midi_number == 69
a4_frequency == 440
audio_sample_rate == 48000
note_count == 128

(* Resolution of the fixed-point samples, and the bounds of the inputs     *)
(* given to fix_wavetable when it is checked on arbitrary arrays.          *)
SCALE == 1024
MaxLen == 3

---------------------------------------------------------------------------
(* Integer helpers *)

Abs(x) == IF x < 0 THEN -x ELSE x

Sgn(x) == IF x < 0 THEN -1 ELSE IF x = 0 THEN 0 ELSE 1

(* floor(a / b) for any sign of b, b # 0 *)
FloorDiv(a, b) == IF b > 0 THEN a \div b ELSE (-a) \div (-b)

RECURSIVE GCD(_, _)
GCD(a, b) == IF b = 0 THEN a ELSE GCD(b, a % b)

RECURSIVE TwoAdic(_)
TwoAdic(x) == IF x % 2 = 1 THEN 0 ELSE 1 + TwoAdic(x \div 2)

(* <<q, r>> with a * b = q * d + r and 0 <= r < d, for a, b >= 0 and d > 0, *)
(* computed by doubling so that no intermediate exceeds 3 * d.              *)
RECURSIVE MulDivQR(_, _, _)
MulDivQR(a, b, d) ==
    IF b = 0 THEN <<0, 0>>
    ELSE LET h == MulDivQR(a, b \div 2, d)
             r == 2 * h[2] + (b % 2) * (a % d)
         IN  <<2 * h[1] + (b % 2) * (a \div d) + (r \div d), r % d>>

---------------------------------------------------------------------------
(* Exact binary rationals n * 2^e / d, with n and d odd and coprime *)

BR(n, e, d) ==
    IF n = 0 THEN [n |-> 0, e |-> 0, d |-> 1]
    ELSE LET tn == TwoAdic(Abs(n))
             td == TwoAdic(d)
             n1 == Abs(n) \div (2 ^ tn)
             d1 == d \div (2 ^ td)
             g  == GCD(n1, d1)
         IN  [n |-> Sgn(n) * (n1 \div g), e |-> e + tn - td, d |-> d1 \div g]

FromInt(k) == BR(k, 0, 1)

BMul(a, b) ==
    LET g1 == GCD(Abs(a.n), b.d)
        g2 == GCD(Abs(b.n), a.d)
    IN  IF a.n = 0 \/ b.n = 0 THEN FromInt(0)
        ELSE BR((a.n \div g1) * (b.n \div g2), a.e + b.e, (a.d \div g2) * (b.d \div g1))

(* a / b, b # 0 *)
BDiv(a, b) == BMul(a, [n |-> Sgn(b.n) * b.d, e |-> -b.e, d |-> Abs(b.n)])

(* floor of a non-negative binary rational *)
BFloor(a) ==
    IF a.e >= 0 THEN MulDivQR(a.n, 2 ^ a.e, a.d)[1]
    ELSE a.n \div (a.d * 2 ^ (-a.e))

(* Python's int(v): truncation toward zero *)
int(a) == IF a.n >= 0 THEN BFloor(a) ELSE -BFloor([a EXCEPT !.n = -a.n])

(* a non-negative binary rational rounded to the nearest integer *)
BRound(a) ==
    IF a.e >= 0
    THEN LET qr == MulDivQR(a.n, 2 ^ a.e, a.d)
         IN  qr[1] + (IF 2 * qr[2] >= a.d THEN 1 ELSE 0)
    ELSE LET dd == a.d * 2 ^ (-a.e)
         IN  (2 * a.n + dd) \div (2 * dd)

---------------------------------------------------------------------------
(* Note frequencies *)

(* 2^(r/12) for r = 0..11, in units of 10^-8 *)
SemitoneRatio ==
    <<100000000, 105946309, 112246205, 118920712, 125992105, 133483985,
      141421356, 149830708, 158740105, 168179283, 178179744, 188774863>>

(* 2 ** (x / 12) *)
Pow2Twelfth(x) == BR(SemitoneRatio[(x % 12) + 1], x \div 12, 100000000)

note_frequencies(i) == BMul(FromInt(a4_frequency), Pow2Twelfth(i - a4_midi_number))

(* the number of groups of 12 notes, the last one included *)
wavetable_octaves_all == (note_count + 11) \div 12

(* math.ceil(len(note_frequencies) / 12) - 1 *)
wavetable_octaves == ((note_count + 11) \div 12) - 1

---------------------------------------------------------------------------
(* Emission of the note table *)

RECURSIVE HexDigits(_, _)
HexDigits(v, width) ==
    IF v < 16 /\ width <= 1 THEN <<v>>
    ELSE Append(HexDigits(v \div 16, width - 1), v % 16)

(* '%s0x%0*x' % (int(v) < 0 and '-' or '', zero_padding, abs(int(v))) *)
format_hex(v, zero_padding) ==
    [neg |-> int(v) < 0, digits |-> HexDigits(Abs(int(v)), zero_padding)]

RECURSIVE HexNumber(_)
HexNumber(ds) ==
    IF Len(ds) = 0 THEN 0
    ELSE 16 * HexNumber(SubSeq(ds, 1, Len(ds) - 1)) + ds[Len(ds)]

(* the integer a C compiler reads back from an emitted literal *)
HexValue(h) == IF h.neg THEN -HexNumber(h.digits) ELSE HexNumber(h.digits)

(* cycles per sample, the table length left out: 1 / (rate / f) *)
PhaseStepPerCycle(f) == BDiv(FromInt(1), BDiv(FromInt(audio_sample_rate), f))

(* step = waveform_samples_per_cycle / (audio_sample_rate / f) *)
PhaseStep(f) == BDiv(FromInt(waveform_samples_per_cycle), BDiv(FromInt(audio_sample_rate), f))

NoteEntry(i) ==
    [id   |-> i,
     name |-> <<(i % 12) + 1, (i \div 12) - 1>>,
     step |-> format_hex(BMul(PhaseStep(note_frequencies(i)), FromInt(2 ^ 16)), 8)]

---------------------------------------------------------------------------
(* Sequences *)

(* the sequence with the elements f[1], ..., f[n], as a tuple *)
Tuple(f, n) == <<>> \o [j \in 1..n |-> f[j]]

(* a copy in the same order *)
NotReversed(s) == s

(* array[::-1] *)
Reverse(s) == LET n == Len(s) IN Tuple([j \in 1..n |-> s[n + 1 - j]], n)

RECURSIVE MinFrom(_, _, _)
MinFrom(s, lo, hi) ==
    IF lo = hi THEN s[lo]
    ELSE LET h == (lo + hi) \div 2
             a == MinFrom(s, lo, h)
             b == MinFrom(s, h + 1, hi)
         IN  IF a <= b THEN a ELSE b

RECURSIVE MaxFrom(_, _, _)
MaxFrom(s, lo, hi) ==
    IF lo = hi THEN s[lo]
    ELSE LET h == (lo + hi) \div 2
             a == MaxFrom(s, lo, h)
             b == MaxFrom(s, h + 1, hi)
         IN  IF a >= b THEN a ELSE b

(* min(array), max(array) of a non-empty array *)
min(s) == MinFrom(s, 1, Len(s))
max(s) == MaxFrom(s, 1, Len(s))

(* The running sums "y += d; append(y)" of a loop started with y = 0,      *)
(* computed by halves.                                                     *)
RECURSIVE Accumulate(_)
Accumulate(d) ==
    IF Len(d) <= 1 THEN d
    ELSE LET h == Len(d) \div 2
             l == Accumulate(SubSeq(d, 1, h))
             r == Accumulate(SubSeq(d, h + 1, Len(d)))
             c == l[h]
         IN  l \o [j \in 1..Len(r) |-> c + r[j]]

(* min(a) + ((max(a) - min(a)) / 2) *)
MidRange(a) == min(a) + ((max(a) - min(a)) \div 2)

---------------------------------------------------------------------------
(* The normalizer / quantizer *)

(* The scaling slip of a power-of-two range: 2 * (amplitude + 1) *)
QuantizeWide(v, mn, mx) ==
    MulDivQR(v - mn, 2 * waveform_amplitude + 2, Abs(mx - mn))[1] - waveform_amplitude

(* lines 47-49 for one element v: subtract mn, multiply by                 *)
(* (2 * waveform_amplitude) / abs(mx - mn), truncate, subtract the         *)
(* amplitude.  The factor is applied exactly; v - mn >= 0, so int() is the *)
(* floor.                                                                  *)
Quantize(v, mn, mx) ==
    MulDivQR(v - mn, 2 * waveform_amplitude, Abs(mx - mn))[1] - waveform_amplitude

(* A guarded division: a constant array is returned as silence *)
FixConstantSilent(array) ==
    [err   |-> "none",
     array |-> Tuple([j \in 1..Len(array) |-> 0], Len(array)),
     ret   |-> Tuple([j \in 1..Len(array) |-> 0], Len(array))]

(* lines 46-48 when mx = mn: the first iteration subtracts mn from         *)
(* array[0] and the division by abs(mx - mn) raises                        *)
FixConstant(array) ==
    [err   |-> "ZeroDivisionError",
     array |-> [array EXCEPT ![1] = array[1] - min(array)],
     ret   |-> <<>>]

(* What a call fix_wavetable(array) does: err is the exception it raises   *)
(* ("none" when it returns), array the contents of the list object that    *)
(* was passed in when the call ends (the loop assigns to its elements),    *)
(* ret the list it returns (array[::-1], a reversed copy).  min of an      *)
(* empty list raises ValueError.                                           *)
fix_wavetable(array) ==
    IF Len(array) = 0
    THEN [err |-> "ValueError", array |-> array, ret |-> <<>>]
    ELSE LET mn == min(array)
             mx == max(array)
         IN  IF mx = mn
             THEN FixConstant(array)
             ELSE LET q == Tuple([j \in 1..Len(array) |-> Quantize(array[j], mn, mx)],
                                 Len(array))
                  IN  [err   |-> "none",
                       array |-> Tuple([j \in 1..Len(array) |-> q[j] * SCALE], Len(array)),
                       ret   |-> Reverse(q)]

---------------------------------------------------------------------------
(* The band-limited impulse train and the waveforms derived from it *)

One == SCALE

(* sin(pi * t / N) in units of 1/SCALE for t in 0..N, N the table length   *)
(* (Bhaskara's rational approximation: 0 exactly at t = 0 and t = N)       *)
SinHalf(t) ==
    LET N == waveform_samples_per_cycle
        p == t * (N - t)
    IN  (16 * p * SCALE) \div (5 * N * N - 4 * p)

(* math.sin(math.pi * j / N) for any integer j *)
Sin(j) ==
    LET N == waveform_samples_per_cycle
        r == j % (2 * N)
    IN  IF r <= N THEN SinHalf(r) ELSE -SinHalf(r - N)

(* the centre taken one sample early *)
XNumOffByOne(i) == i + 1 - waveform_samples_per_cycle \div 2

(* N * x for x = (i - waveform_samples_per_cycle / 2) / waveform_samples_per_cycle *)
XNum(i) == i - waveform_samples_per_cycle \div 2

(* the divisor M * math.sin(math.pi * x) *)
BlitDivisor(m, i) == m * Sin(XNum(i))

(* math.sin(math.pi * x * M) / (M * math.sin(math.pi * x)), the divisor not 0 *)
BlitSample(m, i) == FloorDiv(Sin(XNum(i) * m) * SCALE, BlitDivisor(m, i))

(* the first index from i0 on at which the division raises, or the table  *)
(* length when it never does                                               *)
FirstRaise(m, i0) ==
    LET Z == {i \in i0..(waveform_samples_per_cycle - 1) : BlitDivisor(m, i) = 0}
    IN  IF Z = {} THEN waveform_samples_per_cycle
        ELSE CHOOSE i \in Z : \A k \in Z : i <= k

(* the upper half left where it is *)
shift_no_wrap(i, md) == IF i < md THEN i + md ELSE i

(* the index i + mid if i < mid else i - mid *)
shift(i, md) == IF i < md THEN i + md ELSE i - md

(* the loop of lines 81-85 *)
DeriveSquare(b, md) ==
    Accumulate(Tuple([j \in 1..Len(b) |-> b[j] - b[shift(j - 1, md) + 1]], Len(b)))

(* the loop of lines 89-93 over the list square, with square_avg *)
DeriveTriangle(sq, avg) == Accumulate(Tuple([j \in 1..Len(sq) |-> sq[j] - avg], Len(sq)))

(* a[start:] + a[:start] *)
Rotate(a, start) ==
    LET k == IF start < Len(a) THEN start ELSE Len(a)
    IN  SubSeq(a, k + 1, Len(a)) \o SubSeq(a, 1, k)

(* 1. / P in sample units: the quotient n * SCALE / d first, then the     *)
(* binary exponent, rounded to the nearest unit                            *)
InvPeriod(p) ==
    LET x == BDiv(FromInt(1), p)
        q == MulDivQR(x.n, SCALE, x.d)[1]
    IN  IF x.e >= 0 THEN q * 2 ^ x.e
        ELSE (2 * q + 2 ^ (-x.e)) \div (2 * 2 ^ (-x.e))

(* the loop of lines 98-102 *)
DeriveSawtooth(b, md, p) ==
    LET ip == InvPeriod(p)
        y  == Accumulate(Tuple([j \in 1..Len(b) |-> b[shift(j - 1, md) + 1] - ip], Len(b)))
    IN  Tuple([j \in 1..Len(b) |-> -y[j]], Len(b))

---------------------------------------------------------------------------
(* The script *)

NoTables == [square |-> <<>>, triangle |-> <<>>, sawtooth |-> <<>>]

Init ==
    /\ pc = "octave"
    /\ octave = 0
    /\ P = FromInt(0)
    /\ M = 0
    /\ mid = 0
    /\ blit = <<>>
    /\ blit_avg = 0
    /\ square = <<>>
    /\ square_avg = 0
    /\ triangle = <<>>
    /\ sawtooth = <<>>
    /\ wavetables = NoTables
    /\ notes = <<>>

(* fix_wavetable on arbitrary arrays: the script stands at one of its    *)
(* three calls with an arbitrary list as the argument.                     *)
FixSites == {"fix_square", "fix_triangle", "fix_sawtooth"}

FixValues == {-2 * SCALE, -1, 0, SCALE \div 2, SCALE}

(* the list [0, 1, ..., 511] *)
Ramp == Tuple([j \in 1..waveform_samples_per_cycle |-> (j - 1) * SCALE],
              waveform_samples_per_cycle)

FixInputs == {Ramp} \cup UNION {[1..n -> FixValues] : n \in 0..MaxLen}

InitFix ==
    /\ pc \in FixSites
    /\ octave = wavetable_octaves - 1
    /\ P = FromInt(0)
    /\ M = 0
    /\ mid = 0
    /\ blit = <<>>
    /\ blit_avg = 0
    /\ \E a \in FixInputs :
          /\ square = (IF pc = "fix_square" THEN a ELSE <<>>)
          /\ triangle = (IF pc = "fix_triangle" THEN a ELSE <<>>)
          /\ sawtooth = (IF pc = "fix_sawtooth" THEN a ELSE <<>>)
    /\ square_avg = 0
    /\ wavetables = NoTables
    /\ notes = <<>>

InitNotes ==
    /\ pc = "notes"
    /\ octave = 0
    /\ P = FromInt(0)
    /\ M = 0
    /\ mid = 0
    /\ blit = <<>>
    /\ blit_avg = 0
    /\ square = <<>>
    /\ square_avg = 0
    /\ triangle = <<>>
    /\ sawtooth = <<>>
    /\ wavetables = NoTables
    /\ notes = <<>>

(* one iteration of "for i, f in enumerate(note_frequencies)" of dump_notes *)
DumpNote ==
    /\ pc = "notes"
    /\ Len(notes) < note_count
    /\ notes' = Append(notes, NoteEntry(Len(notes)))
    /\ UNCHANGED <<pc, octave, P, M, mid, blit, blit_avg, square, square_avg,
                   triangle, sawtooth, wavetables>>

(* lines 62-71: the next octave, its reference note, P and M *)
OctaveBegin ==
    /\ pc = "octave"
    /\ octave < wavetable_octaves
    /\ LET idx == octave * 12 + 11
           f   == note_frequencies(IF idx < note_count THEN idx ELSE note_count - 1)
           pp  == BDiv(FromInt(audio_sample_rate), f)
       IN  /\ P' = pp
           /\ M' = 2 * BFloor(BDiv(pp, FromInt(2))) + 1
    /\ mid' = 0
    /\ blit' = <<>>
    /\ pc' = "blit"
    /\ UNCHANGED <<octave, blit_avg, square, square_avg, triangle, sawtooth,
                   wavetables, notes>>

(* lines 72-75: the iterations of the BLIT loop from the current index on *)
(* whose try body succeeds, up to the end of the loop or to the iteration  *)
(* whose division raises ZeroDivisionError                                 *)
BlitRun ==
    /\ pc = "blit"
    /\ Len(blit) < waveform_samples_per_cycle
    /\ LET stop == FirstRaise(M, Len(blit))
       IN  /\ blit' = blit \o Tuple([j \in 1..(stop - Len(blit)) |->
                                        BlitSample(M, Len(blit) + j - 1)],
                                    stop - Len(blit))
           /\ pc' = IF stop < waveform_samples_per_cycle THEN "blit_except" ELSE "blit"
    /\ UNCHANGED <<octave, P, M, mid, blit_avg, square, square_avg, triangle,
                   sawtooth, wavetables, notes>>

(* lines 76-78: except ZeroDivisionError *)
BlitExcept ==
    /\ pc = "blit_except"
    /\ mid' = Len(blit)
    /\ blit' = Append(blit, One)
    /\ pc' = "blit"
    /\ UNCHANGED <<octave, P, M, blit_avg, square, square_avg, triangle,
                   sawtooth, wavetables, notes>>

(* lines 79-86 *)
Square ==
    /\ pc = "blit"
    /\ Len(blit) = waveform_samples_per_cycle
    /\ blit_avg' = MidRange(blit)
    /\ square' = DeriveSquare(blit, mid)
    /\ square_avg' = MidRange(square')
    /\ pc' = "fix_square"
    /\ UNCHANGED <<octave, P, M, mid, blit, triangle, sawtooth, wavetables, notes>>

(* line 87: wavetables['square'].append(fix_wavetable(square)) *)
FixSquare ==
    /\ pc = "fix_square"
    /\ LET r == fix_wavetable(square)
       IN  /\ square' = r.array
           /\ IF r.err = "none"
              THEN /\ wavetables' = [wavetables EXCEPT !.square = Append(@, r.ret)]
                   /\ pc' = "triangle"
              ELSE /\ pc' = r.err
                   /\ UNCHANGED wavetables
    /\ UNCHANGED <<octave, P, M, mid, blit, blit_avg, square_avg, triangle,
                   sawtooth, notes>>

(* lines 89-95 *)
Triangle ==
    /\ pc = "triangle"
    /\ triangle' = Rotate(DeriveTriangle(square, square_avg),
                          waveform_samples_per_cycle \div 4)
    /\ pc' = "fix_triangle"
    /\ UNCHANGED <<octave, P, M, mid, blit, blit_avg, square, square_avg,
                   sawtooth, wavetables, notes>>

(* line 96: wavetables['triangle'].append(fix_wavetable(triangle)) *)
FixTriangle ==
    /\ pc = "fix_triangle"
    /\ LET r == fix_wavetable(triangle)
       IN  /\ triangle' = r.array
           /\ IF r.err = "none"
              THEN /\ wavetables' = [wavetables EXCEPT !.triangle = Append(@, r.ret)]
                   /\ pc' = "sawtooth"
              ELSE /\ pc' = r.err
                   /\ UNCHANGED wavetables
    /\ UNCHANGED <<octave, P, M, mid, blit, blit_avg, square, square_avg,
                   sawtooth, notes>>

(* lines 98-102 *)
Sawtooth ==
    /\ pc = "sawtooth"
    /\ sawtooth' = DeriveSawtooth(blit, mid, P)
    /\ pc' = "fix_sawtooth"
    /\ UNCHANGED <<octave, P, M, mid, blit, blit_avg, square, square_avg,
                   triangle, wavetables, notes>>

(* line 103: wavetables['sawtooth'].append(fix_wavetable(sawtooth)), and   *)
(* the end of the octave's iteration                                       *)
FixSawtooth ==
    /\ pc = "fix_sawtooth"
    /\ LET r == fix_wavetable(sawtooth)
       IN  /\ sawtooth' = r.array
           /\ IF r.err = "none"
              THEN /\ wavetables' = [wavetables EXCEPT !.sawtooth = Append(@, r.ret)]
                   /\ octave' = octave + 1
                   /\ pc' = "octave"
              ELSE /\ pc' = r.err
                   /\ UNCHANGED <<wavetables, octave>>
    /\ UNCHANGED <<P, M, mid, blit, blit_avg, square, square_avg, triangle, notes>>

(* the loop of line 62 is exhausted *)
Finish ==
    /\ pc = "octave"
    /\ octave >= wavetable_octaves
    /\ pc' = "done"
    /\ UNCHANGED <<octave, P, M, mid, blit, blit_avg, square, square_avg,
                   triangle, sawtooth, wavetables, notes>>

Next ==
    \/ OctaveBegin
    \/ BlitRun
    \/ BlitExcept
    \/ Square
    \/ FixSquare
    \/ Triangle
    \/ FixTriangle
    \/ Sawtooth
    \/ FixSawtooth
    \/ Finish

Spec == Init /\ [][Next]_vars

NextFix == FixSquare \/ FixTriangle \/ FixSawtooth

SpecFix == InitFix /\ [][NextFix]_vars

(* the script, and the script continued from each call of fix_wavetable    *)
(* on an arbitrary array                                                   *)
SpecAll == (Init \/ InitFix) /\ [][Next]_vars

NextNotes == DumpNote

SpecNotes == InitNotes /\ [][NextNotes]_vars

---------------------------------------------------------------------------
(* Properties *)

Last(s) == s[Len(s)]

(* the list passed to fix_wavetable at a call, and the family it feeds *)
ArgOf(site) ==
    IF site = "fix_square" THEN square
    ELSE IF site = "fix_triangle" THEN triangle ELSE sawtooth

FamilyOf(w, site) ==
    IF site = "fix_square" THEN w.square
    ELSE IF site = "fix_triangle" THEN w.triangle ELSE w.sawtooth

IsConstant(a) == Len(a) > 0 /\ min(a) = max(a)

Amplitudes == (-waveform_amplitude)..waveform_amplitude

(* C1: every call of fix_wavetable on a non-empty, non-constant array      *)
(* returns (and the script appends) a sequence of integers of the length   *)
(* of its input, every element in [-2047, 2047]; and every sample of every *)
(* table of the three families is in [-2047, 2047].                        *)
FixWavetableContract ==
    /\ [][\A site \in FixSites :
            (pc = site /\ Len(ArgOf(site)) > 0 /\ ~IsConstant(ArgOf(site)))
            => /\ pc' \notin {"ZeroDivisionError", "ValueError"}
               /\ Len(FamilyOf(wavetables', site)) = Len(FamilyOf(wavetables, site)) + 1
               /\ Len(Last(FamilyOf(wavetables', site))) = Len(ArgOf(site))
               /\ \A j \in 1..Len(ArgOf(site)) :
                     Last(FamilyOf(wavetables', site))[j] \in Amplitudes]_vars
    /\ [](\A site \in FixSites :
            \A k \in 1..Len(FamilyOf(wavetables, site)) :
               \A j \in 1..Len(FamilyOf(wavetables, site)[k]) :
                  FamilyOf(wavetables, site)[k][j] \in Amplitudes)

(* C1 witness: a generated table of 512 samples that spans the range, and  *)
(* (from the arbitrary arrays) a table with a value strictly inside it     *)
FixWavetableReturned ==
    /\ pc = "triangle"
    /\ Len(wavetables.square) > 0
    /\ Len(Last(wavetables.square)) = waveform_samples_per_cycle
    /\ \E j \in 1..waveform_samples_per_cycle :
          Last(wavetables.square)[j] = waveform_amplitude
    /\ \E j \in 1..waveform_samples_per_cycle :
          Last(wavetables.square)[j] \notin {-waveform_amplitude, 0, waveform_amplitude}

(* round(a / b) for a >= 0, b > 0 *)
RoundDiv(a, b) == (2 * a + b) \div (2 * b)

(* round(512 * 440 * 2^k * 65536 / 48000) = round(23068672 * 2^k / 75) *)
ExactStepRounded(k) ==
    IF k >= 0 THEN RoundDiv(23068672 * 2 ^ k, 75)
    ELSE RoundDiv(23068672, 75 * 2 ^ (-k))

(* C2: every emitted phase step is step * 65536 rounded to the nearest     *)
(* integer; for the notes 69 + 12k it is round(512*440*2^k*65536/48000).   *)
PhaseStepRounded ==
    \A j \in 1..Len(notes) :
       /\ HexValue(notes[j].step) =
             BRound(BMul(PhaseStep(note_frequencies(j - 1)), FromInt(2 ^ 16)))
       /\ (j - 1 - a4_midi_number) % 12 = 0
          => HexValue(notes[j].step) = ExactStepRounded((j - 1 - a4_midi_number) \div 12)

(* C3 as stated: the phase step emitted for A4 is 307626, within 1 *)
A4StepAsStated ==
    Len(notes) > a4_midi_number
    => HexValue(notes[a4_midi_number + 1].step) \in 307625..307627

(* C3, amended: the phase step emitted for A4 is 307582, within 1 *)
A4Step ==
    Len(notes) > a4_midi_number
    => HexValue(notes[a4_midi_number + 1].step) \in 307581..307583

(* C3 witness: the entry of note 69 has been emitted *)
A4Emitted ==
    /\ Len(notes) > a4_midi_number
    /\ notes[a4_midi_number + 1].id = a4_midi_number
    /\ notes[a4_midi_number + 1].name = <<10, 4>>

(* floor(v * 4094 / 511) - 2047: the quantized value of the ramp's v *)
RampQuantized(v) == (v * (2 * waveform_amplitude)) \div 511 - waveform_amplitude

(* C4: fix_wavetable of the ramp 0..511 returns a table with minimum -2047 *)
(* and maximum 2047, in reversed order: output[j] is the quantized value   *)
(* of input[511 - j], output[0] = 2047, output[511] = -2047, and the       *)
(* output is non-increasing.                                               *)
RampReversed ==
    [][\A site \in FixSites :
         (pc = site /\ ArgOf(site) = Ramp)
         => LET out == Last(FamilyOf(wavetables', site))
            IN  /\ Len(FamilyOf(wavetables', site)) = Len(FamilyOf(wavetables, site)) + 1
                /\ Len(out) = 512
                /\ min(out) = -2047
                /\ max(out) = 2047
                /\ out[1] = 2047
                /\ out[512] = -2047
                /\ \A j \in 0..511 : out[j + 1] = RampQuantized(511 - j)
                /\ \A j \in 1..511 : out[j] >= out[j + 1]]_vars

(* C4 witness: the table returned for the ramp has been appended *)
RampReturned ==
    /\ pc = "triangle"
    /\ Len(wavetables.square) = 1
    /\ Len(wavetables.square[1]) = 512
    /\ wavetables.square[1][1] = 2047
    /\ wavetables.square[1][2] = 2038
    /\ wavetables.square[1][512] = -2047
    /\ square[1] = -2047 * SCALE

(* C5: fix_wavetable leaves the list passed to it as it was: when the      *)
(* triangle is about to be derived, square still holds the running sums    *)
(* derived from the BLIT                                                   *)
FixLeavesSquare ==
    pc = "triangle" /\ Len(blit) = waveform_samples_per_cycle
    => square = DeriveSquare(blit, mid)

(* C6: wavetable_octaves is 10; one table of 512 samples is appended to    *)
(* each family per octave, in octave order (tables are only ever appended  *)
(* at the end); when the loop has finished each family holds 10 tables.    *)
TenTablesPerFamily ==
    /\ [](/\ wavetable_octaves = 10
          /\ Len(wavetables.square) =
               octave + (IF pc \in {"triangle", "fix_triangle", "sawtooth", "fix_sawtooth"}
                         THEN 1 ELSE 0)
          /\ Len(wavetables.triangle) =
               octave + (IF pc \in {"sawtooth", "fix_sawtooth"} THEN 1 ELSE 0)
          /\ Len(wavetables.sawtooth) = octave
          /\ \A site \in FixSites :
                \A k \in 1..Len(FamilyOf(wavetables, site)) :
                   Len(FamilyOf(wavetables, site)[k]) = 512
          /\ pc = "done" => /\ octave = 10
                            /\ Len(wavetables.square) = 10
                            /\ Len(wavetables.triangle) = 10
                            /\ Len(wavetables.sawtooth) = 10)
    /\ [][\A site \in FixSites :
            \/ FamilyOf(wavetables', site) = FamilyOf(wavetables, site)
            \/ /\ pc = site
               /\ Len(FamilyOf(wavetables, site)) = octave
               /\ SubSeq(FamilyOf(wavetables', site), 1, octave) = FamilyOf(wavetables, site)
               /\ Len(FamilyOf(wavetables', site)) = octave + 1]_vars

(* C6 witness: the loop has finished *)
GenerationDone == pc = "done" /\ Len(wavetables.sawtooth) = 10

(* C7: fix_wavetable of a constant array raises ZeroDivisionError: the     *)
(* script stops there, no table is appended to any family and no later     *)
(* octave is begun.                                                        *)
ConstantArrayIsFatal ==
    [][/\ \A site \in FixSites :
            (pc = site /\ IsConstant(ArgOf(site)))
            => /\ pc' = "ZeroDivisionError"
               /\ wavetables' = wavetables
               /\ octave' = octave
       /\ pc = "ZeroDivisionError" => pc' = "ZeroDivisionError"]_vars

(* C7 witness: a constant array of two elements was passed and the script  *)
(* has stopped, with no table appended                                     *)
ConstantArrayRaised ==
    /\ pc = "ZeroDivisionError"
    /\ Len(triangle) = 2
    /\ wavetables = NoTables

(* C8: the triangle handed to fix_wavetable is the running sum of          *)
(* square[i] - avg over the derived square sequence, avg being the         *)
(* mid-range of that same sequence, rotated left by 128                    *)
TriangleOfDerivedSquare ==
    pc = "fix_triangle" /\ Len(blit) = waveform_samples_per_cycle
    => LET sq == DeriveSquare(blit, mid)
           t  == DeriveTriangle(sq, MidRange(sq))
       IN  triangle = Tuple([j \in 1..512 |-> t[((j - 1 + 128) % 512) + 1]], 512)

(* C9: in the BLIT loop the division by zero arises at index 256 only;     *)
(* there 1.0 is stored and mid becomes 256; the loop ends with 512 entries *)
(* and blit[mid] = 1.0, and no error leaves the loop.                      *)
BlitSingularity ==
    /\ pc = "blit_except" => Len(blit) = 256
    /\ pc \in {"blit", "blit_except"}
       => /\ Len(blit) <= 512
          /\ mid = (IF Len(blit) > 256 THEN 256 ELSE 0)
          /\ Len(blit) > 256 => blit[mid + 1] = One
    /\ pc = "fix_square" => /\ Len(blit) = 512
                            /\ mid = 256
                            /\ blit[mid + 1] = One
    /\ pc \notin {"ZeroDivisionError", "ValueError"}

(* C9 witness: the handler has run in the last octave and the loop ended *)
SingularityHandled ==
    /\ pc = "fix_square"
    /\ octave = wavetable_octaves - 1
    /\ mid = 256
    /\ blit[257] = One

===========================================================================
